---- MODULE Spec2Model ----
(***************************************************************************)
(* The POST /pair handler of the Sila session generator, as a state        *)
(* machine.  Two variants of the handler are modelled side by side:        *)
(*   variant "A" : src/server.js            (CommonJS)                     *)
(*   variant "B" : src/unnamed/part_000     (ES module, lines 1-252)       *)
(* One step of the model is one run-to-completion slice of the Node event  *)
(* loop: from the resumption of an await (or the delivery of an event or   *)
(* timer) up to the next await or return.                                  *)
(***************************************************************************)
EXTENDS Integers, Sequences, FiniteSets, TLC

(***************************************************************************)
(* Bounds of the model.                                                    *)
(***************************************************************************)
MaxEvents == 2      \* connection.update events the transport delivers per socket

\* the identities of the POST /pair requests of a run
Reqs == {"r1", "r2"}

(***************************************************************************)
(* Text.  A JavaScript string is a sequence of one-character strings; the  *)
(* grave accent, which the claims never need, is left as a placeholder.   *)
(***************************************************************************)
AsciiChars == <<" ", "!", "\"", "#", "$", "%", "&", "'", "(", ")", "*", "+", ",", "-", ".", "/", "0", "1", "2", "3", "4", "5", "6", "7", "8", "9", ":", ";", "<", "=", ">", "?", "@", "A", "B", "C", "D", "E", "F", "G", "H", "I", "J", "K", "L", "M", "N", "O", "P", "Q", "R", "S", "T", "U", "V", "W", "X", "Y", "Z", "[", "\\", "]", "^", "_", "(grave)", "a", "b", "c", "d", "e", "f", "g", "h", "i", "j", "k", "l", "m", "n", "o", "p", "q", "r", "s", "t", "u", "v", "w", "x", "y", "z", "{", "|", "}", "~">>

Base64Chars == <<"A", "B", "C", "D", "E", "F", "G", "H", "I", "J", "K", "L", "M", "N", "O", "P", "Q", "R", "S", "T", "U", "V", "W", "X", "Y", "Z", "a", "b", "c", "d", "e", "f", "g", "h", "i", "j", "k", "l", "m", "n", "o", "p", "q", "r", "s", "t", "u", "v", "w", "x", "y", "z", "0", "1", "2", "3", "4", "5", "6", "7", "8", "9", "+", "/">>

Digits == {"0", "1", "2", "3", "4", "5", "6", "7", "8", "9"}

\* the byte of an ASCII character (Buffer.from(str) on ASCII text)
CharCode(c) == 31 + (CHOOSE i \in 1..Len(AsciiChars) : AsciiChars[i] = c)

Min(a, b) == IF a < b THEN a ELSE b

\* str.slice(0, n)
Slice0(s, n) == SubSeq(s, 1, Min(n, Len(s)))

\* Buffer.from(s).toString(base64)
ToBase64(s) ==
  LET n == Len(s)
      groups == (n + 2) \div 3
      byte(i) == IF i <= n THEN CharCode(s[i]) ELSE 0
      val(g) == byte(3 * g + 1) * 65536 + byte(3 * g + 2) * 256 + byte(3 * g + 3)
      sym(g, k) ==
        CASE k = 0 -> Base64Chars[(val(g) \div 262144) + 1]
          [] k = 1 -> Base64Chars[((val(g) \div 4096) % 64) + 1]
          [] k = 2 -> IF 3 * g + 2 <= n THEN Base64Chars[((val(g) \div 64) % 64) + 1] ELSE "="
          [] k = 3 -> IF 3 * g + 3 <= n THEN Base64Chars[(val(g) % 64) + 1] ELSE "="
  IN  [j \in 1..(4 * groups) |-> sym((j - 1) \div 4, (j - 1) % 4)]

\* does pat occur in s at position i (1-based)?
OccursAt(s, pat, i) ==
  /\ i >= 1
  /\ i + Len(pat) - 1 <= Len(s)
  /\ SubSeq(s, i, i + Len(pat) - 1) = pat

\* the longest run of characters outside stop that starts at position from
RunFrom(s, from, stop) ==
  LET ends == {j \in from..(Len(s) + 1) : j = Len(s) + 1 \/ s[j] \in stop}
      end == CHOOSE j \in ends : \A k \in ends : j <= k
  IN  SubSeq(s, from, end - 1)

MegaFilePrefix == <<"m", "e", "g", "a", ".", "n", "z", "/", "f", "i", "l", "e", "/">>
MegaCodeStop == {"#", "?", "/"}

\* extractMegaFileCode of variant B: /mega\.nz\/file\/([^#?\/]+)/, else the
\* first 12 characters of the base64 text of the link
extractMegaFileCode(megaLink) ==
  LET hits == {i \in 1..Len(megaLink) :
                 /\ OccursAt(megaLink, MegaFilePrefix, i)
                 /\ i + Len(MegaFilePrefix) <= Len(megaLink)
                 /\ megaLink[i + Len(MegaFilePrefix)] \notin MegaCodeStop}
  IN  IF hits # {}
      THEN LET i == CHOOSE h \in hits : \A k \in hits : h <= k
           IN  RunFrom(megaLink, i + Len(MegaFilePrefix), MegaCodeStop)
      ELSE Slice0(ToBase64(megaLink), 12)

\* The pattern of variant A, /mega\\.nz\\/file\\/(.*?)(?:#|$)/, read as the
\* pattern text between its first and last slash: every \\ asks for a
\* backslash in the link and the dot stands for any character.
MatchesEscapedPrefix(s, i) ==
  /\ i + 15 <= Len(s)
  /\ SubSeq(s, i, i + 3) = <<"m", "e", "g", "a">>
  /\ s[i + 4] = "\\"
  /\ SubSeq(s, i + 6, i + 7) = <<"n", "z">>
  /\ s[i + 8] = "\\"
  /\ SubSeq(s, i + 9, i + 13) = <<"/", "f", "i", "l", "e">>
  /\ s[i + 14] = "\\"
  /\ s[i + 15] = "/"

inlineMegaCode(megaLink) ==
  LET hits == {i \in 1..Len(megaLink) : MatchesEscapedPrefix(megaLink, i)}
  IN  IF hits # {}
      THEN LET i == CHOOSE h \in hits : \A k \in hits : h <= k
           IN  RunFrom(megaLink, i + 16, {"#"})
      ELSE Slice0(ToBase64(megaLink), 12)

SidPrefix == <<"S", "i", "l", "a", "~">>

\* const sid = `Sila~${code}`
MakeSid(v, megaLink) ==
  SidPrefix \o (IF v = "A" THEN inlineMegaCode(megaLink) ELSE extractMegaFileCode(megaLink))

\* ('' + number).replace(/\D/g, '')
SanitizeKeepsAll(number) == number
Sanitize(number) == SelectSeq(number, LAMBDA c : c \in Digits)

\* the minimum number of digits: 8 in variant A, 7 in variant B
MinDigitsA == 8
MinDigitsB == 7
MinDigits(v) == IF v = "A" THEN MinDigitsA ELSE MinDigitsB


(***************************************************************************)
(* Inputs.                                                                 *)
(***************************************************************************)
\* req.body: has = FALSE is a body without the field number
NoNumber == [has |-> FALSE, number |-> <<>>]
Body(text) == [has |-> TRUE, number |-> text]

Bodies ==
  { NoNumber,
    Body(<<>>),
    Body(<<"+", "-">>),
    Body(<<"1", "2", "3", "4", "5", "6">>),
    Body(<<"1", "2", "-", "3", "4", "-", "5", "6">>),
    Body(<<"2", "5", "5", "7", "0", "0", "1">>),
    Body(<<"+", "2", "5", "5", " ", "7", "0", "0", "1", "1">>),
    Body(<<"2", "5", "5", "7", "0", "0", "2", "2">>) }

Variants == {"A", "B"}

\* what node.link() may return
LinkFile == <<"m", "e", "g", "a", ".", "n", "z", "/", "f", "i", "l", "e", "/", "A", "B", "#", "K">>
LinkFolder == <<"m", "e", "g", "a", ".", "n", "z", "/", "f", "o", "l", "d", "e", "r", "/", "Q">>
Links == {LinkFile, LinkFolder}

\* what sock.requestPairingCode may resolve to; "" stands for every falsy value
PairingCodes == {"AB12-CD34", "WXYZ-9876"}

\* lastDisconnect?.error?.output?.statusCode; NoStatusCode stands for undefined
NoStatusCode == 0
loggedOut == 401
connectionClosed == 428
StatusCodes == {NoStatusCode, loggedOut, connectionClosed}

(***************************************************************************)
(* Responses: what res.status(http).json(body) commits.                    *)
(***************************************************************************)
Response(http, field, tag) ==
  [http |-> http, field |-> field, tag |-> tag, sid |-> <<>>, megaLink |-> <<>>, code |-> ""]

NumberRequired == Response(400, "error", "number required")
InvalidNumber == Response(400, "error", "invalid number")
EndpointError == Response(500, "error", "String(err)")
CredsNotFound == Response(500, "error", "creds_not_found")
UploadErrorEscapes == Response(500, "error", "String(err)")
UploadFailed == Response(500, "error", "upload_failed")
LoggedOutError == Response(500, "error", "logged_out")
PairingCodeFailed == Response(500, "error", "failed_to_generate_pairing_code")
AlreadyRegistered == Response(200, "status", "already_registered")
Waiting == Response(202, "status", "waiting")
PairingCodeSent(c) == [Response(200, "status", "pairing_code_sent") EXCEPT !.code = c]
Paired(sid, megaLink) ==
  [Response(200, "status", "paired") EXCEPT !.sid = sid, !.megaLink = megaLink]

\* if (!responded) { responded = true; res...json(body) }: the responses after it
ReplyUnguarded(rs, flag, body) == Append(rs, body)
ReplyOverwrites(rs, flag, body) == <<body>>
ReplySetsFlagOnly(rs, flag, body) == rs
Reply(rs, flag, body) == IF flag THEN rs ELSE Append(rs, body)

\* the record pushed to db.sessions (createdAt, a wall-clock text, is left out)
SessionRecord(sid, number, megaLink) == [sid |-> sid, number |-> number, megaLink |-> megaLink]

\* db.sessions.push(record); writeDB(db)
PushSessionTwice(sessions, rec) == Append(Append(sessions, rec), rec)
PushSessionDropped(sessions, rec) == sessions
PushSessionOverwrites(sessions, rec) == <<rec>>
PushSession(sessions, rec) == Append(sessions, rec)

\* one run of the connection.update listener: where it stands ("uploading",
\* "notifying", "done"), while it is notifying the megaLink it holds, and
\* until it is done whether a response was committed before its event came
Invocation(stage, megaLink, late) == [stage |-> stage, megaLink |-> megaLink, late |-> late]
Finished == Invocation("done", <<>>, FALSE)

\* let tries = 3
Tries == 3

\* the count of requestPairingCode calls is kept up to one past the tries
MaxCalls == Tries + 1

(***************************************************************************)
(* State.                                                                  *)
(***************************************************************************)
VARIABLES
  variant,      \* "A": src/server.js, "B": src/unnamed/part_000
  body,         \* req.body of each request
  pc,           \* where the async handler of each request stands
  tries,        \* let tries
  pairingCode,  \* let pairingCode ("" while null)
  calls,        \* how many times requestPairingCode was called
  responded,    \* let responded
  responses,    \* the responses committed on res, in order
  sockUp,       \* makeWASocket returned and the listeners are registered
  registered,   \* sock.authState.creds.registered
  timer,        \* the safety timeout: "unarmed", "armed", "fired"
  connection,   \* the connection value of the latest connection.update event
  inv,          \* the runs of the connection.update listener, in order of arrival
  uploads,      \* how many times uploadCredsToMega was called
  dirs,         \* the session directories that exist (by sanitized number)
  creds,        \* the session directories that hold creds.json
  db,           \* db.sessions
  warned,       \* logger.warn of a failed owner notification was written
  archived      \* how many archives the uploads of the request left on remote storage

vars == <<variant, body, pc, tries, pairingCode, calls, responded, responses,
          sockUp, registered, timer, connection, inv, uploads, dirs, creds, db, warned,
          archived>>

\* const sanitized, and the sid of a link, tabulated over the inputs of the model
sanitizedOf == [b \in Bodies |-> Sanitize(b.number)]
sidOf == [v \in Variants, l \in Links |-> MakeSid(v, l)]

sanitized(r) == sanitizedOf[body[r]]

\* the state when the requests of the set arriving reach the handler
InitWith(arriving) ==
  /\ variant \in Variants
  /\ body \in [Reqs -> Bodies]
  /\ \A r \in Reqs \ arriving : body[r] = NoNumber
  /\ pc = [r \in Reqs |-> IF r \in arriving THEN "received" ELSE "absent"]
  /\ tries = [r \in Reqs |-> 0]
  /\ pairingCode = [r \in Reqs |-> ""]
  /\ calls = [r \in Reqs |-> 0]
  /\ responded = [r \in Reqs |-> FALSE]
  /\ responses = [r \in Reqs |-> <<>>]
  /\ sockUp = [r \in Reqs |-> FALSE]
  /\ registered = [r \in Reqs |-> FALSE]
  /\ timer = [r \in Reqs |-> "unarmed"]
  /\ connection = [r \in Reqs |-> "connecting"]
  /\ inv = [r \in Reqs |-> <<>>]
  /\ uploads = [r \in Reqs |-> 0]
  /\ dirs = {}
  /\ creds \in SUBSET {sanitizedOf[body[r]] : r \in arriving}
  /\ db = <<>>
  /\ warned = [r \in Reqs |-> FALSE]
  /\ archived = [r \in Reqs |-> 0]

Init == InitWith({"r1"})

(***************************************************************************)
(* The handler of POST /pair.                                              *)
(***************************************************************************)
\* lines 70-77 (A), 121-128 (B): validation, up to await fs.ensureDir
Validate(r) ==
  /\ pc[r] = "received"
  /\ IF ~body[r].has \/ body[r].number = <<>>
     THEN /\ responses' = [responses EXCEPT ![r] = Append(@, NumberRequired)]
          /\ pc' = [pc EXCEPT ![r] = "returned"]
     ELSE IF Len(sanitized(r)) < MinDigits(variant)
     THEN /\ responses' = [responses EXCEPT ![r] = Append(@, InvalidNumber)]
          /\ pc' = [pc EXCEPT ![r] = "returned"]
     ELSE /\ pc' = [pc EXCEPT ![r] = "ensureDir"]
          /\ UNCHANGED responses
  /\ UNCHANGED <<variant, warned, archived, body, tries, pairingCode, calls, responded, sockUp,
                 registered, timer, connection, inv, uploads, dirs, creds, db>>

\* the catch block of the handler: try { res.status(500).json(...) } catch {}
OuterCatch(r) ==
  /\ responses' = [responses EXCEPT ![r] = Append(@, EndpointError)]
  /\ pc' = [pc EXCEPT ![r] = "failed"]

\* await fs.ensureDir(sessionPath) settles
EnsureDir(r, ok) ==
  /\ pc[r] = "ensureDir"
  /\ IF ok
     THEN /\ dirs' = dirs \cup {sanitized(r)}
          /\ pc' = [pc EXCEPT ![r] = "authState"]
          /\ UNCHANGED responses
     ELSE /\ OuterCatch(r)
          /\ UNCHANGED dirs
  /\ UNCHANGED <<variant, warned, archived, body, tries, pairingCode, calls, responded, sockUp,
                 registered, timer, connection, inv, uploads, creds, db>>

\* if (!sock.authState.creds.registered): the handler enters the pairing-code loop
NeedsPairingCodeAlways(reg) == TRUE
NeedsPairingCode(reg) == ~reg

\* await useMultiFileAuthState settles; then makeWASocket, the two listeners,
\* let responded = false and the branch on creds.registered, up to the first
\* await delay(1000) or, on a registered subject, to the end of the handler
AuthState(r, ok, reg) ==
  /\ pc[r] = "authState"
  /\ IF ~ok
     THEN /\ OuterCatch(r)
          /\ UNCHANGED <<sockUp, registered, responded, tries, pairingCode, timer>>
     ELSE /\ sockUp' = [sockUp EXCEPT ![r] = TRUE]
          /\ registered' = [registered EXCEPT ![r] = reg]
          /\ IF NeedsPairingCode(reg)
             THEN /\ tries' = [tries EXCEPT ![r] = Tries]
                  /\ pairingCode' = [pairingCode EXCEPT ![r] = ""]
                  /\ pc' = [pc EXCEPT ![r] = "delay"]
                  /\ UNCHANGED <<responses, responded, timer>>
             ELSE /\ responses' = [responses EXCEPT ![r] = Reply(@, responded[r], AlreadyRegistered)]
                  /\ responded' = [responded EXCEPT ![r] = TRUE]
                  /\ timer' = [timer EXCEPT ![r] = "armed"]
                  /\ pc' = [pc EXCEPT ![r] = "done"]
                  /\ UNCHANGED <<tries, pairingCode>>
  /\ UNCHANGED <<variant, warned, archived, body, calls, connection, inv, uploads, dirs, creds, db>>

\* await delay(1000) settles and sock.requestPairingCode(sanitized) is called
DelayDone(r) ==
  /\ pc[r] = "delay"
  /\ calls' = [calls EXCEPT ![r] = Min(@ + 1, MaxCalls)]
  /\ pc' = [pc EXCEPT ![r] = "request"]
  /\ UNCHANGED <<variant, warned, archived, body, tries, pairingCode, responded, responses, sockUp,
                 registered, timer, connection, inv, uploads, dirs, creds, db>>


\* while (tries > 0 && !pairingCode)
LoopContinuesIgnoringCode(t, code) == t > 0
LoopContinues(t, code) == t > 0 /\ code = ""

\* if (tries <= 0 && !responded), the test on tries
ExhaustedEarly(t) == t <= 1
Exhausted(t) == t <= 0

\* the loop is left without a return: setTimeout(..., 30000) and the handler ends
ArmTimer(r) ==
  /\ timer' = [timer EXCEPT ![r] = "armed"]
  /\ pc' = [pc EXCEPT ![r] = "done"]

\* if (pairingCode) { if (!responded) { ... return res.json(...) } }
SendsCodeUnguarded(value, flag) == value # ""
SendsCode(value, flag) == value # "" /\ ~flag

\* await sock.requestPairingCode(sanitized) resolves to value ("" for a falsy value)
RequestResolves(r, value) ==
  /\ pc[r] = "request"
  /\ pairingCode' = [pairingCode EXCEPT ![r] = value]
  /\ IF SendsCode(value, responded[r])
     THEN /\ responded' = [responded EXCEPT ![r] = TRUE]
          /\ responses' = [responses EXCEPT ![r] = Append(@, PairingCodeSent(value))]
          /\ pc' = [pc EXCEPT ![r] = "returned"]
          /\ UNCHANGED timer
     ELSE /\ IF LoopContinues(tries[r], value)
             THEN /\ pc' = [pc EXCEPT ![r] = "delay"]
                  /\ UNCHANGED timer
             ELSE ArmTimer(r)
          /\ UNCHANGED <<responded, responses>>
  /\ UNCHANGED <<variant, warned, archived, body, tries, calls, sockUp, registered, connection, inv, uploads,
                 dirs, creds, db>>

\* await delay or await sock.requestPairingCode rejects: the catch of the loop
RequestThrows(r) ==
  /\ pc[r] = "request"
  /\ tries' = [tries EXCEPT ![r] = @ - 1]
  /\ IF Exhausted(tries[r] - 1) /\ ~responded[r]
     THEN /\ responded' = [responded EXCEPT ![r] = TRUE]
          /\ responses' = [responses EXCEPT ![r] = Append(@, PairingCodeFailed)]
          /\ pc' = [pc EXCEPT ![r] = "returned"]
          /\ UNCHANGED timer
     ELSE /\ IF LoopContinues(tries[r] - 1, pairingCode[r])
             THEN /\ pc' = [pc EXCEPT ![r] = "delay"]
                  /\ UNCHANGED timer
             ELSE ArmTimer(r)
          /\ UNCHANGED <<responded, responses>>
  /\ UNCHANGED <<variant, warned, archived, body, pairingCode, calls, sockUp, registered, connection, inv,
                 uploads, dirs, creds, db>>

\* the callback of setTimeout(..., 30000)
TimerFire(r) ==
  /\ timer[r] = "armed"
  /\ timer' = [timer EXCEPT ![r] = "fired"]
  /\ responses' = [responses EXCEPT ![r] = Reply(@, responded[r], Waiting)]
  /\ responded' = [responded EXCEPT ![r] = TRUE]
  /\ UNCHANGED <<variant, warned, archived, body, pc, tries, pairingCode, calls, sockUp, registered,
                 connection, inv, uploads, dirs, creds, db>>

(***************************************************************************)
(* The listeners of the socket.                                            *)
(***************************************************************************)
\* creds.update: saveCreds() writes creds.json into the session directory
CredsUpdate(r) ==
  /\ sockUp[r]
  /\ sanitized(r) \notin creds
  /\ creds' = creds \cup {sanitized(r)}
  /\ UNCHANGED <<variant, warned, archived, body, pc, tries, pairingCode, calls, responded, responses,
                 sockUp, registered, timer, connection, inv, uploads, dirs, db>>

\* fs.existsSync(credsFile)
existsAlways(paths, dir) == TRUE
existsSync(paths, dir) == dir \in paths

\* connection.update with connection === 'open', up to await uploadCredsToMega
ConnOpen(r) ==
  /\ sockUp[r]
  /\ Len(inv[r]) < MaxEvents
  /\ connection' = [connection EXCEPT ![r] = "open"]
  /\ IF ~existsSync(creds, sanitized(r))
     THEN /\ responses' = [responses EXCEPT ![r] = Reply(@, responded[r], CredsNotFound)]
          /\ responded' = [responded EXCEPT ![r] = TRUE]
          /\ inv' = [inv EXCEPT ![r] = Append(@, Finished)]
          /\ UNCHANGED uploads
     ELSE /\ uploads' = [uploads EXCEPT ![r] = @ + 1]
          /\ inv' = [inv EXCEPT ![r] = Append(@, Invocation("uploading", <<>>, responses[r] # <<>>))]
          /\ UNCHANGED <<responses, responded>>
  /\ UNCHANGED <<variant, warned, archived, body, pc, tries, pairingCode, calls, sockUp, registered,
                 timer, dirs, creds, db>>

\* if (!responded && code === DisconnectReason.loggedOut)
IsLoggedOutCloseAnyCode(flag, code) == ~flag
IsLoggedOutClose(flag, code) == ~flag /\ code = loggedOut

\* connection.update with connection === 'close'
ConnClose(r, code) ==
  /\ sockUp[r]
  /\ Len(inv[r]) < MaxEvents
  /\ connection' = [connection EXCEPT ![r] = "close"]
  /\ IF IsLoggedOutClose(responded[r], code)
     THEN /\ responded' = [responded EXCEPT ![r] = TRUE]
          /\ responses' = [responses EXCEPT ![r] = Append(@, LoggedOutError)]
     ELSE UNCHANGED <<responded, responses>>
  /\ inv' = [inv EXCEPT ![r] = Append(@, Finished)]
  /\ UNCHANGED <<variant, warned, archived, body, pc, tries, pairingCode, calls, sockUp, registered,
                 timer, uploads, dirs, creds, db>>

\* await uploadCredsToMega(credsFile) rejects: catch (uploadErr)
UploadFails(r, i) ==
  /\ i \in DOMAIN inv[r]
  /\ inv[r][i].stage = "uploading"
  /\ responses' = [responses EXCEPT ![r] = Reply(@, responded[r], UploadFailed)]
  /\ responded' = [responded EXCEPT ![r] = TRUE]
  /\ inv' = [inv EXCEPT ![r][i] = Finished]
  /\ UNCHANGED <<variant, warned, archived, body, pc, tries, pairingCode, calls, sockUp, registered,
                 timer, connection, uploads, dirs, creds, db>>

\* await uploadCredsToMega(credsFile) resolves to megaLink (the archive is on
\* remote storage): sid, readDB, push,
\* writeDB (dbOk: neither readDB nor writeDB throws), then in variant A the
\* response and the start of the notification, in variant B the notification
\* (hasJid: sock.user.id is there) and, without one, the response
UploadReturns(r, i, megaLink, dbOk, hasJid) ==
  /\ i \in DOMAIN inv[r]
  /\ inv[r][i].stage = "uploading"
  /\ archived' = [archived EXCEPT ![r] = @ + 1]
  /\ LET sid == sidOf[variant, megaLink]
         respondsNow == variant = "A" \/ ~hasJid
     IN  IF ~dbOk
         THEN /\ responses' = [responses EXCEPT ![r] = Reply(@, responded[r], UploadFailed)]
              /\ responded' = [responded EXCEPT ![r] = TRUE]
              /\ inv' = [inv EXCEPT ![r][i] = Finished]
              /\ UNCHANGED db
         ELSE /\ db' = PushSession(db, SessionRecord(sid, sanitized(r), megaLink))
              /\ IF respondsNow
                 THEN /\ responses' = [responses EXCEPT ![r] =
                                         Reply(@, responded[r], Paired(sid, megaLink))]
                      /\ responded' = [responded EXCEPT ![r] = TRUE]
                 ELSE UNCHANGED <<responses, responded>>
              /\ inv' = [inv EXCEPT ![r][i] = IF hasJid THEN Invocation("notifying", megaLink, inv[r][i].late)
                                                         ELSE Finished]
  /\ UNCHANGED <<variant, warned, body, pc, tries, pairingCode, calls, sockUp, registered,
                 timer, connection, uploads, dirs, creds>>

\* catch (notifyErr) { logger.warn(...) }: what the listener goes on to answer
\* after the notification settled (sent: sendMessage resolved)
AfterNotifyEscalates(sent, answer) == IF sent THEN answer ELSE UploadFailed
AfterNotify(sent, answer) == answer

\* the best-effort notification settles (sent: sendMessage resolved); variant B
\* writes the paired response only now
NotifyDone(r, i, sent) ==
  /\ i \in DOMAIN inv[r]
  /\ inv[r][i].stage = "notifying"
  /\ IF variant = "B"
     THEN /\ responses' = [responses EXCEPT ![r] =
                             Reply(@, responded[r],
                                   AfterNotify(sent, Paired(sidOf[variant, inv[r][i].megaLink],
                                                            inv[r][i].megaLink)))]
          /\ responded' = [responded EXCEPT ![r] = TRUE]
     ELSE UNCHANGED <<responses, responded>>
  /\ inv' = [inv EXCEPT ![r][i] = Finished]
  /\ warned' = [warned EXCEPT ![r] = @ \/ ~sent]
  /\ UNCHANGED <<variant, archived, body, pc, tries, pairingCode, calls, sockUp, registered,
                 timer, connection, uploads, dirs, creds, db>>

(***************************************************************************)
(* The specifications.                                                     *)
(***************************************************************************)
Next ==
  \/ \E r \in Reqs : Validate(r)
  \/ \E r \in Reqs, ok \in BOOLEAN : EnsureDir(r, ok)
  \/ \E r \in Reqs, ok \in BOOLEAN, reg \in BOOLEAN : AuthState(r, ok, reg)
  \/ \E r \in Reqs : DelayDone(r)
  \/ \E r \in Reqs, value \in PairingCodes \cup {""} : RequestResolves(r, value)
  \/ \E r \in Reqs : RequestThrows(r)
  \/ \E r \in Reqs : TimerFire(r)
  \/ \E r \in Reqs : CredsUpdate(r)
  \/ \E r \in Reqs : ConnOpen(r)
  \/ \E r \in Reqs, code \in StatusCodes : ConnClose(r, code)
  \/ \E r \in Reqs, i \in 1..MaxEvents : UploadFails(r, i)
  \/ \E r \in Reqs, i \in 1..MaxEvents, megaLink \in Links, dbOk \in BOOLEAN, hasJid \in BOOLEAN :
       UploadReturns(r, i, megaLink, dbOk, hasJid)
  \/ \E r \in Reqs, i \in 1..MaxEvents, sent \in BOOLEAN : NotifyDone(r, i, sent)

Spec == Init /\ [][Next]_vars

\* what Node guarantees: a file-system promise settles, a timer fires.  The
\* transport (requestPairingCode, connection events) and the upload owe nothing.
FairSpec ==
  /\ Spec
  /\ WF_vars(\E r \in Reqs : Validate(r))
  /\ WF_vars(\E r \in Reqs, ok \in BOOLEAN : EnsureDir(r, ok))
  /\ WF_vars(\E r \in Reqs, ok \in BOOLEAN, reg \in BOOLEAN : AuthState(r, ok, reg))
  /\ WF_vars(\E r \in Reqs : DelayDone(r))
  /\ WF_vars(\E r \in Reqs : TimerFire(r))

(***************************************************************************)
(* Vocabulary of the properties.                                           *)
(***************************************************************************)
\* the number of decimal digits of a text
DigitCount(text) == Cardinality({k \in DOMAIN text : text[k] \in Digits})

\* the digits of a text, in order
DigitsOf(text) == SelectSeq(text, LAMBDA c : c \in Digits)

\* the request carries a number with enough digits for its variant
WellFormed(r) ==
  /\ body[r].has
  /\ DigitCount(body[r].number) >= (IF variant = "A" THEN 8 ELSE 7)

Tags(r) == {responses[r][k].tag : k \in DOMAIN responses[r]}

Unanswered(r) == responses[r] = <<>>

\* the state of a request other than its listener runs and its responses
HandlerState(r) ==
  <<pc[r], tries[r], pairingCode[r], calls[r], sockUp[r], registered[r], timer[r]>>

(***************************************************************************)
(* C1.  At most one HTTP response is ever committed for a request,         *)
(* whatever the pairing-code loop, the connection listener, the safety     *)
(* timer and the catch block of the handler do.                            *)
(***************************************************************************)
C1_AtMostOneResponse == \A r \in Reqs : Len(responses[r]) <= 1

\* a well-formed request on an unregistered subject for which the loop, the
\* listener (upload and append done) and the timer have all run
C1_Witness ==
  \E r \in Reqs :
    /\ WellFormed(r) /\ ~registered[r]
    /\ calls[r] >= 1
    /\ timer[r] = "fired"
    /\ Len(db) >= 1
    /\ Len(responses[r]) = 1

(***************************************************************************)
(* C2.  On a well-formed request for an unregistered subject, unless the   *)
(* transport emits open or an attempt yields a non-empty code, the caller  *)
(* is not left without a response: eventually the 202 waiting response of  *)
(* the safety timer is committed (or, before it, one of the two other      *)
(* answers of this case, logged_out and failed_to_generate_pairing_code).  *)
(***************************************************************************)
C2_EventuallyWaiting ==
  \A r \in Reqs :
    [](sockUp[r] /\ ~registered[r]
         => <>(\/ Tags(r) \cap {"waiting", "logged_out", "failed_to_generate_pairing_code"} # {}
               \/ connection[r] = "open"
               \/ pairingCode[r] # ""))

(***************************************************************************)
(* C3.  As claimed: whenever a listener run that saw open with creds.json  *)
(* present comes to its end, the one response of the request is the paired *)
(* response with a non-empty sid and megaLink, and the run has added       *)
(* exactly one record with these values to the registry.                   *)
(***************************************************************************)
C3_AlwaysPaired ==
  [][\A r \in Reqs : \A i \in DOMAIN inv[r] :
       (inv[r][i].stage # "done" /\ inv'[r][i].stage = "done")
         => /\ Len(responses'[r]) = 1
            /\ responses'[r][1].tag = "paired"
            /\ responses'[r][1].sid # <<>> /\ responses'[r][1].megaLink # <<>>
            /\ \E k \in DOMAIN db' :
                 /\ db'[k].sid = responses'[r][1].sid
                 /\ db'[k].megaLink = responses'[r][1].megaLink
                 /\ db'[k].number = DigitsOf(body[r].number)]_vars

(***************************************************************************)
(* C3, amended.  When the upload of such a run returns a link and the      *)
(* registry is read and written without error, the registry gains exactly  *)
(* one record: its number is the digits of the request, its megaLink the   *)
(* returned link, its sid starts with Sila~.  When the run then reaches    *)
(* its response (at once in variant A, after the notification in variant   *)
(* B) and the request is still unanswered, the response is the paired one  *)
(* with the sid and megaLink of a record of the registry; if the request   *)
(* is answered already, nothing is written.                                *)
(***************************************************************************)
C3_PairedWhenStored ==
  [][\A r \in Reqs : \A i \in DOMAIN inv[r] :
       /\ \A megaLink \in Links, hasJid \in BOOLEAN :
            UploadReturns(r, i, megaLink, TRUE, hasJid)
              => /\ Len(db') = Len(db) + 1
                 /\ SubSeq(db', 1, Len(db)) = db
                 /\ db'[Len(db')].number = DigitsOf(body[r].number)
                 /\ db'[Len(db')].megaLink = megaLink
                 /\ megaLink # <<>>
                 /\ Len(db'[Len(db')].sid) >= Len(SidPrefix)
                 /\ SubSeq(db'[Len(db')].sid, 1, Len(SidPrefix)) = SidPrefix
       /\ (IF variant = "A"
            THEN inv[r][i].stage = "uploading" /\ inv'[r][i].stage # "uploading"
                   /\ Len(db') > Len(db)
            ELSE \/ inv[r][i].stage = "uploading" /\ inv'[r][i].stage = "done"
                      /\ Len(db') > Len(db)
                 \/ inv[r][i].stage = "notifying" /\ inv'[r][i].stage = "done")
              => IF Unanswered(r)
                 THEN /\ Len(responses'[r]) = 1
                      /\ responses'[r][1].http = 200
                      /\ responses'[r][1].tag = "paired"
                      /\ \E k \in DOMAIN db' :
                            /\ db'[k].sid = responses'[r][1].sid
                            /\ db'[k].megaLink = responses'[r][1].megaLink
                            /\ db'[k].number = DigitsOf(body[r].number)
                 ELSE responses'[r] = responses[r]]_vars

\* the paired response was written and the registry holds one record
C3_Witness ==
  \E r \in Reqs :
    /\ Len(responses[r]) = 1 /\ responses[r][1].tag = "paired"
    /\ Len(db) = 1 /\ db[1].sid = responses[r][1].sid

(***************************************************************************)
(* C4.  As claimed: whenever the listener sees open and creds.json is      *)
(* missing, the response of the request is 500 creds_not_found, no upload  *)
(* is attempted and the registry is unchanged.                             *)
(***************************************************************************)
C4_AlwaysCredsNotFound ==
  [][\A r \in Reqs :
       (ConnOpen(r) /\ DigitsOf(body[r].number) \notin creds)
         => /\ responses'[r] = <<CredsNotFound>>
            /\ uploads' = uploads
            /\ db' = db]_vars

(***************************************************************************)
(* C4, amended.  Whenever the listener sees open and creds.json is         *)
(* missing: if the request is unanswered the 500 creds_not_found response  *)
(* is written, otherwise no response is written; in both cases no upload   *)
(* is attempted, no listener run stays pending and the registry is         *)
(* unchanged.                                                              *)
(***************************************************************************)
C4_CredsNotFoundIfUnanswered ==
  [][\A r \in Reqs :
       (ConnOpen(r) /\ DigitsOf(body[r].number) \notin creds)
         => /\ responses'[r] = IF Unanswered(r) THEN <<CredsNotFound>> ELSE responses[r]
            /\ uploads' = uploads
            /\ inv'[r][Len(inv'[r])].stage = "done"
            /\ db' = db]_vars

\* the creds_not_found response was written and nothing was uploaded
C4_Witness ==
  \E r \in Reqs : responses[r] = <<CredsNotFound>> /\ uploads[r] = 0 /\ db = <<>>

(***************************************************************************)
(* C5.  A request whose number is missing, or has fewer digits than the    *)
(* minimum of its variant, is answered 400 and has no other effect: no     *)
(* session directory, no socket, no listener run, no timer, no upload, no  *)
(* registry change.                                                        *)
(***************************************************************************)
Invalid(r) == pc[r] # "absent" /\ ~WellFormed(r)

Alone(r) == \A q \in Reqs \ {r} : pc[q] = "absent"

C5_InvalidOnlyAnswered400 ==
  /\ [](\A r \in Reqs :
          Invalid(r)
            => /\ pc[r] \in {"received", "returned"}
               /\ ~sockUp[r] /\ timer[r] = "unarmed" /\ connection[r] = "connecting"
               /\ inv[r] = <<>> /\ uploads[r] = 0
               /\ IF pc[r] = "received"
                  THEN responses[r] = <<>>
                  ELSE /\ Len(responses[r]) = 1
                       /\ responses[r][1].http = 400
                       /\ responses[r][1].field = "error"
               /\ Alone(r) => dirs = {} /\ db = <<>>)
  /\ [][\A r \in Reqs : Invalid(r) /\ Alone(r) => dirs' = dirs /\ creds' = creds /\ db' = db]_vars

\* a number of eight characters, six of them digits, was answered 400
C5_Witness ==
  \E r \in Reqs :
    /\ body[r].has /\ Len(body[r].number) >= 8 /\ DigitCount(body[r].number) = 6
    /\ pc[r] = "returned"
    /\ responses[r] = <<InvalidNumber>>

(***************************************************************************)
(* C6.  Once the paired response is written, the registry holds a record   *)
(* with its sid and megaLink for the number of the request; and every      *)
(* record of the registry comes after the return of an upload: the         *)
(* records never outnumber the uploads that were started and have settled. *)
(***************************************************************************)
RECURSIVE SumOver(_, _)
SumOver(f, S) == IF S = {} THEN 0 ELSE LET x == CHOOSE y \in S : TRUE
                                      IN  f[x] + SumOver(f, S \ {x})

Uploading(r) == Cardinality({i \in DOMAIN inv[r] : inv[r][i].stage = "uploading"})

C6_RecordBeforePaired ==
  /\ \A r \in Reqs : \A k \in DOMAIN responses[r] :
       responses[r][k].tag = "paired"
         => \E j \in DOMAIN db :
              /\ db[j].sid = responses[r][k].sid
              /\ db[j].megaLink = responses[r][k].megaLink
              /\ db[j].number = DigitsOf(body[r].number)
  /\ Len(db) + SumOver([r \in Reqs |-> Uploading(r)], Reqs) <= SumOver(uploads, Reqs)

\* the paired response of variant B, written after the notification
C6_Witness ==
  \E r \in Reqs :
    /\ variant = "B"
    /\ Len(responses[r]) = 1 /\ responses[r][1].tag = "paired"
    /\ responses[r][1].megaLink = LinkFile
    /\ uploads[r] = 1

(***************************************************************************)
(* C7.  As claimed: when a listener run whose open event came after the    *)
(* response of the request gets past its upload, the registry has gained   *)
(* one record for the number and no response is written.                   *)
(***************************************************************************)
C7_AlwaysStoredWhenLate ==
  [][\A r \in Reqs : \A i \in DOMAIN inv[r] :
       (inv[r][i].late /\ inv[r][i].stage = "uploading" /\ inv'[r][i].stage # "uploading")
         => /\ Len(db') = Len(db) + 1
            /\ db'[Len(db')].number = DigitsOf(body[r].number)
            /\ responses'[r] = responses[r]]_vars

(***************************************************************************)
(* C7, amended.  If the response was already written and the transport     *)
(* then emits open with creds.json present, the upload is still started;   *)
(* when it returns a link and the registry is read and written without     *)
(* error, the registry gains one record for the number; and whatever the   *)
(* run does, also when the upload or the registry fails, no second         *)
(* response is written.                                                    *)
(***************************************************************************)
C7_StoredWhenUploadReturns ==
  [][\A r \in Reqs :
       /\ (ConnOpen(r) /\ DigitsOf(body[r].number) \in creds /\ ~Unanswered(r))
            => /\ uploads'[r] = uploads[r] + 1
               /\ inv'[r][Len(inv'[r])].stage = "uploading"
               /\ responses'[r] = responses[r]
       /\ \A i \in DOMAIN inv[r] :
            /\ \A megaLink \in Links, hasJid \in BOOLEAN :
                 (inv[r][i].late /\ UploadReturns(r, i, megaLink, TRUE, hasJid))
                   => /\ Len(db') = Len(db) + 1
                      /\ db'[Len(db')].number = DigitsOf(body[r].number)
                      /\ db'[Len(db')].megaLink = megaLink
            /\ (inv[r][i].late /\ inv'[r][i] # inv[r][i])
                   => responses'[r] = responses[r]]_vars

\* the pairing code was sent first; the one open came later, its upload has
\* returned and its record is stored
C7_Witness ==
  \E r \in Reqs :
    /\ Len(responses[r]) = 1 /\ responses[r][1].tag = "pairing_code_sent"
    /\ Len(inv[r]) = 1 /\ inv[r][1].late /\ inv[r][1].stage = "notifying"
    /\ Len(db) = 1 /\ db[1].number = DigitsOf(body[r].number)

(***************************************************************************)
(* C8.  When a requestPairingCode attempt returns a non-empty code and the *)
(* request is unanswered, the response is 200 pairing_code_sent with that  *)
(* code; and once a non-empty code is held, no further attempt is made.    *)
(***************************************************************************)
C8_FirstCodeIsSent ==
  [][\A r \in Reqs :
       /\ (pc[r] = "request" /\ pairingCode'[r] # "" /\ Unanswered(r))
            => /\ Len(responses'[r]) = 1
               /\ responses'[r][1].tag = "pairing_code_sent"
               /\ responses'[r][1].code = pairingCode'[r]
               /\ \E value \in PairingCodes : RequestResolves(r, value) /\ value = pairingCode'[r]
       /\ pairingCode[r] # ""
            => /\ pairingCode'[r] = pairingCode[r]
               /\ calls'[r] = calls[r]
               /\ pc'[r] \notin {"delay", "request"}]_vars

\* the second attempt returned the code that was sent
C8_Witness ==
  \E r \in Reqs :
    /\ calls[r] = 2 /\ tries[r] = Tries - 1
    /\ pairingCode[r] = "WXYZ-9876"
    /\ responses[r] = <<PairingCodeSent("WXYZ-9876")>>

(***************************************************************************)
(* C9.  When the last try fails and the request is unanswered, the         *)
(* response is 500 failed_to_generate_pairing_code; when the request is    *)
(* answered already, exhaustion writes nothing; and that response is       *)
(* written at no other moment.                                             *)
(***************************************************************************)
C9_FailedWhenExhausted ==
  [][\A r \in Reqs :
       /\ (pc[r] = "request" /\ tries[r] = 1 /\ tries'[r] = 0)
            => IF Unanswered(r)
               THEN /\ Len(responses'[r]) = 1
                    /\ responses'[r][1].http = 500
                    /\ responses'[r][1].tag = "failed_to_generate_pairing_code"
               ELSE responses'[r] = responses[r]
       /\ ("failed_to_generate_pairing_code" \in Tags(r)' \ Tags(r))
            => pc[r] = "request" /\ tries'[r] = 0 /\ pairingCode'[r] = ""]_vars

\* three attempts failed and the failure was reported
C9_Witness ==
  \E r \in Reqs :
    /\ tries[r] = 0 /\ calls[r] >= Tries
    /\ responses[r] = <<PairingCodeFailed>>

(***************************************************************************)
(* C10.  A close event writes 500 logged_out when its status code is       *)
(* loggedOut and the request is unanswered; any other close, and any close *)
(* on an answered request, writes nothing; and no close changes the        *)
(* handler, the pending listener runs, the files or the registry.          *)
(***************************************************************************)
C10_CloseOnlyLoggedOut ==
  [][\A r \in Reqs, code \in StatusCodes :
       ConnClose(r, code)
         => /\ IF code = loggedOut /\ Unanswered(r)
               THEN /\ Len(responses'[r]) = 1
                    /\ responses'[r][1].http = 500
                    /\ responses'[r][1].tag = "logged_out"
               ELSE responses'[r] = responses[r]
            /\ HandlerState(r)' = HandlerState(r)
            /\ \A i \in DOMAIN inv[r] : inv'[r][i] = inv[r][i]
            /\ uploads' = uploads /\ dirs' = dirs /\ creds' = creds /\ db' = db]_vars

\* a logged-out close answered the request while the loop was waiting
C10_Witness ==
  \E r \in Reqs :
    /\ connection[r] = "close"
    /\ responses[r] = <<LoggedOutError>>
    /\ pc[r] \in {"delay", "request"}

(***************************************************************************)
(* C11.  When the transport reports the subject as registered, the handler *)
(* writes the already_registered response in the same slice, calls         *)
(* requestPairingCode never, and uploads nothing at that point; the        *)
(* listener is registered, and an upload is started only by an open event  *)
(* and a record appended only by a listener run whose upload returned.     *)
(***************************************************************************)
C11_RegisteredAnsweredAtOnce ==
  /\ [](\A r \in Reqs :
          registered[r]
            => /\ calls[r] = 0 /\ pc[r] = "done" /\ sockUp[r]
               /\ Len(responses[r]) = 1
               /\ responses[r][1].field = "status"
               /\ responses[r][1].tag = "already_registered")
  /\ [][\A r \in Reqs :
          /\ (~registered[r] /\ registered'[r])
               => uploads' = uploads /\ db' = db /\ inv' = inv
          /\ (registered[r] /\ uploads'[r] # uploads[r])
               => /\ ConnOpen(r)
                  /\ uploads'[r] = uploads[r] + 1
          /\ (registered[r] /\ Alone(r) /\ db' # db)
               => \E i \in DOMAIN inv[r] :
                    inv[r][i].stage = "uploading" /\ inv'[r][i].stage # "uploading"]_vars

\* a registered subject was answered, and a later open led to a stored record
C11_Witness ==
  \E r \in Reqs :
    /\ registered[r]
    /\ responses[r] = <<AlreadyRegistered>>
    /\ uploads[r] = 1
    /\ Len(db) = 1

(***************************************************************************)
(* C12.  When the upload of a listener run that saw open with creds.json   *)
(* present fails, the 500 upload_failed response is written if the request *)
(* is unanswered and nothing is written otherwise; the registry gains no   *)
(* record, and the run ends without calling the upload again.              *)
(***************************************************************************)
C12_UploadFailureReported ==
  [][\A r \in Reqs : \A i \in DOMAIN inv[r] :
       UploadFails(r, i)
         => /\ IF Unanswered(r)
               THEN /\ Len(responses'[r]) = 1
                    /\ responses'[r][1].http = 500
                    /\ responses'[r][1].field = "error"
                    /\ responses'[r][1].tag = "upload_failed"
               ELSE responses'[r] = responses[r]
            /\ db' = db
            /\ uploads' = uploads
            /\ inv'[r][i].stage = "done"
            /\ Len(inv'[r]) = Len(inv[r])]_vars

\* the one upload of a request failed and the failure was reported
C12_Witness ==
  \E r \in Reqs :
    /\ uploads[r] = 1 /\ inv[r] = <<Finished>>
    /\ archived[r] = 0
    /\ responses[r] = <<UploadFailed>>
    /\ db = <<>>

(***************************************************************************)
(* C13.  As claimed: the safety timer is armed when the pairing starts, so *)
(* that it runs beside the pairing-code loop and the listener: while the   *)
(* loop is suspended in its delay or in requestPairingCode, the timer is   *)
(* armed or has fired.                                                     *)
(***************************************************************************)
C13_TimerArmedAtStart ==
  \A r \in Reqs : pc[r] \in {"delay", "request"} => timer[r] # "unarmed"

\* what the handler does instead: whenever the timer is armed or has fired, a
\* response was written before it was armed, and no waiting response exists
C13_TimerArmedOnlyWhenAnswered ==
  \A r \in Reqs :
    /\ timer[r] # "unarmed" => responded[r] /\ ~Unanswered(r) /\ pc[r] = "done"
    /\ "waiting" \notin Tags(r)

(***************************************************************************)
(* C14.  As claimed: whatever the transport does, the handler of a request *)
(* on an unregistered subject calls requestPairingCode at most 3 times.    *)
(***************************************************************************)
C14_AtMostThreeCalls == \A r \in Reqs : calls[r] <= 3

(***************************************************************************)
(* C15.  As claimed: for one request, whatever connection.update events    *)
(* the transport emits, the credential upload is called at most once and   *)
(* the registry holds at most one record of the request.                   *)
(***************************************************************************)
C15_UploadAtMostOnce ==
  \A r \in Reqs :
    /\ uploads[r] <= 1
    /\ Alone(r) => Len(db) <= 1

(***************************************************************************)
(* C16.  The pairing-code loop does not block connection events: while the *)
(* loop is suspended in its delay or in requestPairingCode, an open or a   *)
(* close event can be handled, and the listener leaves the loop where it   *)
(* stands; a listener run that stores its record on an unanswered request  *)
(* writes the paired response although the loop has written nothing; and   *)
(* whichever of the loop and the listener finds the request answered       *)
(* writes no response.                                                     *)
(***************************************************************************)
InLoop(r) == pc[r] \in {"delay", "request"}

C16_LoopDoesNotBlockListener ==
  /\ [](\A r \in Reqs :
          InLoop(r) /\ Len(inv[r]) < MaxEvents
            => /\ ENABLED ConnOpen(r)
               /\ ENABLED ConnClose(r, loggedOut))
  /\ [][\A r \in Reqs :
          /\ (InLoop(r) /\ inv'[r] # inv[r])
               => HandlerState(r)' = HandlerState(r)
          /\ \A i \in DOMAIN inv[r], megaLink \in Links, hasJid \in BOOLEAN :
               (/\ InLoop(r) /\ Unanswered(r)
                /\ UploadReturns(r, i, megaLink, TRUE, hasJid)
                /\ (variant = "A" \/ ~hasJid))
                 => /\ Len(responses'[r]) = 1
                    /\ responses'[r][1].tag = "paired"
                    /\ responses'[r][1].megaLink = megaLink
          /\ ~Unanswered(r) => responses'[r] = responses[r]]_vars

\* the listener wrote the paired response while the loop was suspended; the
\* loop then obtained a code and wrote nothing
C16_Witness ==
  \E r \in Reqs :
    /\ calls[r] >= 1 /\ pairingCode[r] # ""
    /\ Len(responses[r]) = 1 /\ responses[r][1].tag = "paired"

(***************************************************************************)
(* C17.  A failed owner notification after the upload and the append       *)
(* changes nothing of the outcome: the registry keeps its records, no      *)
(* error response is written, and the paired response is written when the  *)
(* request is unanswered: in variant A it was written before the           *)
(* notification started, in variant B it is written when the notification  *)
(* has failed.                                                             *)
(***************************************************************************)
C17_NotifyFailureIgnored ==
  /\ [](\A r \in Reqs : \A i \in DOMAIN inv[r] :
          inv[r][i].stage = "notifying"
            => /\ variant = "A" => ~Unanswered(r)
               /\ \E k \in DOMAIN db :
                    /\ db[k].megaLink = inv[r][i].megaLink
                    /\ db[k].number = DigitsOf(body[r].number))
  /\ [][\A r \in Reqs : \A i \in DOMAIN inv[r] :
          NotifyDone(r, i, FALSE)
            => /\ db' = db
               /\ uploads' = uploads
               /\ inv'[r][i].stage = "done"
               /\ IF variant = "B" /\ Unanswered(r)
                  THEN /\ Len(responses'[r]) = 1
                       /\ responses'[r][1].http = 200
                       /\ responses'[r][1].tag = "paired"
                       /\ responses'[r][1].megaLink = inv[r][i].megaLink
                       /\ \E k \in DOMAIN db :
                            /\ db[k].sid = responses'[r][1].sid
                            /\ db[k].megaLink = responses'[r][1].megaLink
                  ELSE responses'[r] = responses[r]]_vars

\* the notification failed and the one response of the request is the paired one
C17_Witness ==
  \E r \in Reqs :
    /\ variant = "B"
    /\ warned[r]
    /\ Len(responses[r]) = 1 /\ responses[r][1].tag = "paired"
    /\ Len(db) = 1
    /\ uploads[r] = 1

(***************************************************************************)
(* Two requests in flight at once: both have reached the handler, with two *)
(* numbers (PairSpec) or with one (SameNumberSpec).  Each makes the first  *)
(* call of its pairing-code loop only, the upload returns one link, and    *)
(* the events of the two sockets are counted together.                     *)
(***************************************************************************)
\* connection.update events, over both sockets, when two requests are in flight
MaxPairEvents == 2

\* the connection.update events delivered so far, over all sockets
PairEvents == SumOver([r \in Reqs |-> Len(inv[r])], Reqs)

\* the numbers of the two requests: well-formed in both variants
PairBodies ==
  { Body(<<"+", "2", "5", "5", " ", "7", "0", "0", "1", "1">>),
    Body(<<"2", "5", "5", "7", "0", "0", "2", "2">>) }

\* both requests have reached the handler, with two numbers
InitPair ==
  /\ InitWith(Reqs)
  /\ \A r \in Reqs : body[r] \in PairBodies
  /\ body["r1"] = Body(<<"+", "2", "5", "5", " ", "7", "0", "0", "1", "1">>)
  /\ body["r2"] # body["r1"]

\* both requests have reached the handler, with one number
InitSameNumber ==
  /\ InitWith(Reqs)
  /\ \A r \in Reqs : body[r] = Body(<<"+", "2", "5", "5", " ", "7", "0", "0", "1", "1">>)

NextPair ==
  \/ \E r \in Reqs : Validate(r)
  \/ \E r \in Reqs, ok \in BOOLEAN : EnsureDir(r, ok)
  \/ \E r \in Reqs, ok \in BOOLEAN, reg \in BOOLEAN : AuthState(r, ok, reg)
  \/ \E r \in Reqs : calls[r] = 0 /\ DelayDone(r)
  \/ \E r \in Reqs, value \in {"AB12-CD34", ""} : RequestResolves(r, value)
  \/ \E r \in Reqs : RequestThrows(r)
  \/ \E r \in Reqs : TimerFire(r)
  \/ \E r \in Reqs : CredsUpdate(r)
  \/ \E r \in Reqs : PairEvents < MaxPairEvents /\ ConnOpen(r)
  \/ \E r \in Reqs, code \in StatusCodes : PairEvents < MaxPairEvents /\ ConnClose(r, code)
  \/ \E r \in Reqs, i \in 1..MaxEvents : UploadFails(r, i)
  \/ \E r \in Reqs, i \in 1..MaxEvents, megaLink \in {LinkFile}, dbOk \in BOOLEAN, hasJid \in BOOLEAN :
       UploadReturns(r, i, megaLink, dbOk, hasJid)
  \/ \E r \in Reqs, i \in 1..MaxEvents, sent \in BOOLEAN : NotifyDone(r, i, sent)

PairSpec == InitPair /\ [][NextPair]_vars

SameNumberSpec == InitSameNumber /\ [][NextPair]_vars

(***************************************************************************)
(* C18.  Under every interleaving of two sessions, each step leaves the    *)
(* registry as it is or extends it by one record at its end, so that no    *)
(* record is ever changed, moved or removed and a stored record is there   *)
(* in every later state; and every listener run whose upload returned and  *)
(* whose registry access succeeded adds the record of its own number.      *)
(***************************************************************************)
C18_RegistryAppendOnly ==
  [][/\ \/ db' = db
        \/ /\ Len(db') = Len(db) + 1
           /\ SubSeq(db', 1, Len(db)) = db
     /\ \A r \in Reqs : \A i \in DOMAIN inv[r] : \A megaLink \in Links, hasJid \in BOOLEAN :
          UploadReturns(r, i, megaLink, TRUE, hasJid)
            => /\ Len(db') = Len(db) + 1
               /\ db'[Len(db')].number = DigitsOf(body[r].number)
               /\ db'[Len(db')].megaLink = megaLink]_vars

\* two sessions for two numbers, both still in their loops, have each stored
\* their record
C18_Witness ==
  /\ \A r \in Reqs : InLoop(r) /\ uploads[r] = 1
  /\ Len(db) = 2
  /\ db[1].number # db[2].number

(***************************************************************************)
(* C19.  As claimed: at every moment at most one socket with its listeners *)
(* uses the session directory of a number: of two requests for one number, *)
(* the second does not open a socket while the first has one.              *)
(***************************************************************************)
C19_OneSocketPerDirectory ==
  \A r \in Reqs : \A q \in Reqs \ {r} :
    sockUp[r] /\ sockUp[q] => DigitsOf(body[r].number) # DigitsOf(body[q].number)

(***************************************************************************)
(* C20.  As claimed: the sid of every record is Sila~ followed by the file *)
(* segment of its link (the text after mega.nz/file/ up to the first #, ?  *)
(* or /) when the link has that form, and by the first 12 characters of    *)
(* the base64 text of the link otherwise, in both variants.                *)
(***************************************************************************)
\* the code the claim derives from a link
ClaimedCode(link) ==
  LET n == Len(MegaFilePrefix)
      starts == {i \in 1..Len(link) :
                   i + n - 1 <= Len(link) /\ SubSeq(link, i, i + n - 1) = MegaFilePrefix}
  IN  IF starts = {}
      THEN Slice0(ToBase64(link), 12)
      ELSE LET from == n + CHOOSE i \in starts : \A k \in starts : i <= k
               stops == {j \in from..Len(link) : link[j] \in {"#", "?", "/"}}
               end == IF stops = {} THEN Len(link) + 1
                      ELSE CHOOSE j \in stops : \A k \in stops : j <= k
           IN  SubSeq(link, from, end - 1)

claimedSidOf == [l \in Links |-> SidPrefix \o ClaimedCode(l)]

C20_SidFromFileSegment ==
  \A k \in DOMAIN db : db[k].sid = claimedSidOf[db[k].megaLink]

\* what holds: the claimed sid in variant B; in variant A always the base64
\* fallback, also for a link of the file form; in both the sid of a record
\* depends on its link alone
C20_SidOfEachVariant ==
  \A k \in DOMAIN db :
    /\ variant = "B" => db[k].sid = claimedSidOf[db[k].megaLink]
    /\ variant = "A" => db[k].sid = SidPrefix \o Slice0(ToBase64(db[k].megaLink), 12)
    /\ \A j \in DOMAIN db : db[j].megaLink = db[k].megaLink => db[j].sid = db[k].sid

(***************************************************************************)
(* C21.  As claimed: in every reachable state the flag responded of a      *)
(* request is true if and only if a response has been written for it, the  *)
(* responses of the catch block of the handler included.                   *)
(***************************************************************************)
C21_RespondedIffAnswered ==
  \A r \in Reqs : responded[r] <=> ~Unanswered(r)

(***************************************************************************)
(* C21, amended.  The flag responded is never reset from true to false,    *)
(* and whenever it is true a response has been written.  A response        *)
(* written while the flag stays false is a 400 of the validation or the    *)
(* 500 of the catch block of the handler: it is written before the socket, *)
(* the listeners and the timer of the request exist, the handler has ended *)
(* and nothing is written after it.                                        *)
(***************************************************************************)
C21_RespondedImpliesAnswered ==
  /\ [](\A r \in Reqs :
          /\ responded[r] => ~Unanswered(r)
          /\ (~responded[r] /\ ~Unanswered(r))
               => /\ responses[r] \in {<<NumberRequired>>, <<InvalidNumber>>, <<EndpointError>>}
                  /\ pc[r] \in {"returned", "failed"}
                  /\ ~sockUp[r] /\ timer[r] = "unarmed" /\ inv[r] = <<>>)
  /\ [][\A r \in Reqs :
          /\ responded[r] => responded'[r]
          /\ (~responded[r] /\ ~Unanswered(r))
               => responses'[r] = responses[r] /\ ~responded'[r]]_vars

\* the catch block of the handler has answered and the flag is false
C21_Witness ==
  \E r \in Reqs :
    /\ pc[r] = "failed"
    /\ responses[r] = <<EndpointError>>
    /\ ~responded[r]
    /\ DigitsOf(body[r].number) \in dirs

(***************************************************************************)
(* C22.  As claimed: when the upload of a listener run has returned a      *)
(* link and so left its archive on remote storage, whether or not the      *)
(* registry can then be read and written, the run writes no upload_failed  *)
(* response and the registry holds a record of that link for the number    *)
(* afterwards: upload_failed is written only by a run whose upload failed. *)
(***************************************************************************)
C22_UploadFailedOnlyForUpload ==
  [][\A r \in Reqs : \A i \in DOMAIN inv[r] :
       \A megaLink \in Links, dbOk \in BOOLEAN, hasJid \in BOOLEAN :
         UploadReturns(r, i, megaLink, dbOk, hasJid)
           => /\ "upload_failed" \notin Tags(r)' \ Tags(r)
              /\ archived'[r] = archived[r] + 1
              /\ \E k \in DOMAIN db' :
                   /\ db'[k].megaLink = megaLink
                   /\ db'[k].number = DigitsOf(body[r].number)]_vars
====
